---------------------------- MODULE Spec2Model ----------------------------
(***************************************************************************)
(* The paper ledger of the multi-pair paper trading bots                   *)
(*   src/multipair_paper_bot_with_report/bot.py  (Position, Ledger, run)   *)
(*   src/multipair_paper_bot_with_ui/bot.py      (same Ledger, plus the    *)
(*        Flask thread that reads the ledger through state_ref)            *)
(*                                                                         *)
(* Python floats are modelled as exact rationals <<num, den>> (den > 0,    *)
(* lowest terms): the ledger's arithmetic is +, -, *, / and comparisons.   *)
(* A Position is a mutable object: `objs` is the heap of Position objects  *)
(* and `positions` maps a symbol to the index of its object, so that two   *)
(* threads holding references to different objects for one symbol can be   *)
(* told apart.                                                             *)
(***************************************************************************)
EXTENDS Integers, Sequences, FiniteSets, TLC

(***************************************************************************)
(* Bounds of the model.                                                    *)
(***************************************************************************)
\* number of Ledger calls in one behaviour of Spec
MaxOps == 4
\* the largest price and the largest notional amount a call is given
MaxPrice == 3
MaxNotional == 2

SYMBOLS == {"BTCUSDT", "XRPUSDT"}

(***************************************************************************)
(* Exact rational arithmetic standing for Python's float operations.       *)
(***************************************************************************)
Abs(x) == IF x < 0 THEN -x ELSE x

RECURSIVE GCD(_, _)
GCD(a, b) == IF b = 0 THEN a ELSE GCD(b, a % b)

\* the rational n/d in lowest terms with a positive denominator (d # 0)
Rat(n, d) ==
    LET s == IF d < 0 THEN -1 ELSE 1
        g == GCD(Abs(n), Abs(d))
    IN  <<(s * n) \div g, (s * d) \div g>>

Num(x) == x[1]
Den(x) == x[2]
FromInt(i) == <<i, 1>>
Zero == <<0, 1>>

RAdd(x, y) == Rat(Num(x) * Den(y) + Num(y) * Den(x), Den(x) * Den(y))
RSub(x, y) == Rat(Num(x) * Den(y) - Num(y) * Den(x), Den(x) * Den(y))
RMul(x, y) == Rat(Num(x) * Num(y), Den(x) * Den(y))
\* x / y, only evaluated where the code divides (y # 0 there)
RDiv(x, y) == Rat(Num(x) * Den(y), Den(x) * Num(y))
RLt(x, y) == Num(x) * Den(y) < Num(y) * Den(x)
RLe(x, y) == Num(x) * Den(y) <= Num(y) * Den(x)
RGt(x, y) == RLt(y, x)
\* Python's min(a, b): b when b < a, else a
RMin(a, b) == IF RLt(b, a) THEN b ELSE a

(***************************************************************************)
(* State.                                                                  *)
(***************************************************************************)
VARIABLES
    realized_pnl,   \* Ledger.realized_pnl
    positions,      \* Ledger.positions: symbol -> index in objs of its Position
    objs,           \* the Position objects created so far, each [qty, avg_entry]
    last,           \* the latest Ledger call: arguments, result, ledger before it
    prev_buy,       \* the call before `last`, kept when it was a buy with a
                    \* positive fill (NoCall otherwise)
    fills,          \* per symbol, since its position was last flat: the notional
                    \* spent by buys (price * qty) and whether a sell has filled
    nops,           \* number of Ledger calls made
    general,        \* the ledger the same calls give when buy has no from-flat
                    \* special case: its positions and its realized_pnl
    scen,           \* how many calls of Scenario the calls made so far are:
                    \* nops while they are exactly its first calls, else 0
    \* --- run() of the UI bot and its Flask thread ---
    prices,         \* run.prices: symbol -> last price fetched (0.0 at start)
    signal_q,       \* signal_q: the queued signals, oldest first
    last_state,     \* run.last_state: {} or the state written last
    ticks,          \* iterations of the main loop completed
    m_pc,           \* main thread: where it is in the loop body
    m_i,            \* main thread: index of the symbol whose price is fetched
    m_sig,          \* main thread: the signal being applied, with px and notional
    m_p,            \* main thread: p, the Position object buy/sell works on
    m_new,          \* main thread: the values buy is about to store
    m_ret,          \* main thread: qty, the fill buy/sell returns
    s_pc,           \* server thread: where it is in api_state / build_state
    s_i,            \* server thread: index of the symbol being read
    s_p,            \* server thread: p in Ledger.unrealized
    s_arg,          \* server thread: the price passed to unrealized, then the
                    \* avg_entry it has read
    snap,           \* server thread: the state dict being built / returned
    nsig,           \* signals submitted so far
    nreq,           \* GET /api/state requests made so far
    submitted,      \* the signals submit_signal has queued, in order
    drained,        \* the signals the main loop has taken from the queue, in
                    \* order, each with px, the price it read for the symbol
    calls,          \* the Ledger.buy / Ledger.sell calls run() has made, in order,
                    \* each with the signal it was made for
    committed,      \* every (positions, realized_pnl) the ledger has had between
                    \* two Ledger calls of the main thread
    net             \* per symbol: buy fills minus sell fills returned to run()

ledgerVars == <<realized_pnl, positions, objs>>
histVars == <<last, prev_buy, fills, nops, scen, general>>
mainVars == <<m_pc, m_i, m_sig, m_p, m_new, m_ret>>
serverVars == <<s_pc, s_i, s_p, s_arg, snap>>
uiVars == <<prices, signal_q, last_state, ticks, m_pc, m_i, m_sig, m_p, m_new,
            m_ret, s_pc, s_i, s_p, s_arg, snap, nsig, nreq, committed, net,
            submitted, drained, calls>>
vars == <<realized_pnl, positions, objs, last, prev_buy, fills, nops, scen, general,
          prices, signal_q, last_state, ticks, m_pc, m_i, m_sig, m_p, m_new,
          m_ret, s_pc, s_i, s_p, s_arg, snap, nsig, nreq, committed, net,
          submitted, drained, calls>>

\* Position(): the dataclass defaults
Position == [qty |-> Zero, avg_entry |-> Zero]

\* what a reader of the mapping sees: symbol -> (qty, avg_entry)
View == [s \in DOMAIN positions |-> objs[positions[s]]]

\* positions.get(s, Position()) on a view
Get(view, s) == IF s \in DOMAIN view THEN view[s] ELSE Position

NoCall == [op |-> "none"]

(***************************************************************************)
(* Ledger.ensure: insert a fresh Position() when the symbol is absent.     *)
(***************************************************************************)
ensure_positions(pos, ob, sym) ==
    IF sym \notin DOMAIN pos
    THEN [s \in DOMAIN pos \cup {sym} |-> IF s = sym THEN Len(ob) + 1 ELSE pos[s]]
    ELSE pos

ensure_objs(pos, ob, sym) ==
    IF sym \notin DOMAIN pos THEN Append(ob, Position) ELSE ob

(***************************************************************************)
(* Ledger.buy.                                                             *)
(***************************************************************************)
\* the guard written price != 0
buy_qty_nonzero_price(price, usdt_notional) ==
    IF price # Zero THEN RDiv(usdt_notional, price) ELSE Zero

\* qty = (usdt_notional / price) if price > 0 else 0.0
buy_qty(price, usdt_notional) ==
    IF RGt(price, Zero) THEN RDiv(usdt_notional, price) ELSE Zero

\* the plain mean of the old average and the new price
buy_avg_entry_unweighted(p, price, qty) ==
    IF RGt(p.qty, Zero)
    THEN RDiv(RAdd(p.avg_entry, price), FromInt(2))
    ELSE price

\* the from-flat case that leaves p.avg_entry as it is
buy_avg_entry_stale(p, price, qty) ==
    IF RGt(p.qty, Zero)
    THEN RDiv(RAdd(RMul(p.avg_entry, p.qty), RMul(price, qty)), RAdd(p.qty, qty))
    ELSE p.avg_entry

\* the weighted average written to p.avg_entry when new_qty > 0
buy_avg_entry(p, price, qty) ==
    IF RGt(p.qty, Zero)
    THEN RDiv(RAdd(RMul(p.avg_entry, p.qty), RMul(price, qty)), RAdd(p.qty, qty))
    ELSE price

\* the reset taken only when new_qty == 0
buy_pos_reset_on_zero_only(p, price, qty) ==
    LET new_qty == RAdd(p.qty, qty)
    IN  IF new_qty = Zero
        THEN [qty |-> Zero, avg_entry |-> Zero]
        ELSE [qty |-> new_qty, avg_entry |-> buy_avg_entry(p, price, qty)]

\* the Position after new_qty = p.qty + qty and the if/else on new_qty <= 0
buy_pos(p, price, qty) ==
    LET new_qty == RAdd(p.qty, qty)
    IN  IF RLe(new_qty, Zero)
        THEN [qty |-> Zero, avg_entry |-> Zero]
        ELSE [qty |-> new_qty, avg_entry |-> buy_avg_entry(p, price, qty)]

\* both divisions evaluated whatever price and new_qty are
buy_divisors_unguarded(p, price, usdt_notional) ==
    {price, RAdd(p.qty, buy_qty(price, usdt_notional))}

\* the divisors of the divisions buy evaluates: price under `if price > 0`,
\* new_qty in the else branch of `if new_qty <= 0` under `if p.qty > 0`
buy_divisors(p, price, usdt_notional) ==
    LET new_qty == RAdd(p.qty, buy_qty(price, usdt_notional))
    IN  (IF RGt(price, Zero) THEN {price} ELSE {})
        \cup (IF ~RLe(new_qty, Zero) /\ RGt(p.qty, Zero) THEN {new_qty} ELSE {})

(***************************************************************************)
(* Ledger.sell.                                                            *)
(***************************************************************************)
\* the divisor of the division sell evaluates: price under `if price > 0`
sell_divisors(p, price, usdt_notional) ==
    IF RGt(price, Zero) THEN {price} ELSE {}

\* the fill without the min(p.qty, ...)
sell_qty_unclamped(p, price, usdt_notional) ==
    IF RGt(price, Zero) THEN RDiv(usdt_notional, price) ELSE Zero

\* qty = min(p.qty, usdt_notional / price if price > 0 else 0.0)
sell_qty(p, price, usdt_notional) ==
    RMin(p.qty, IF RGt(price, Zero) THEN RDiv(usdt_notional, price) ELSE Zero)

\* the early return taken only when qty == 0
sell_returns_early_on_zero_only(qty) == qty = Zero

\* if qty <= 0: return 0.0
sell_returns_early(qty) == RLe(qty, Zero)

\* the proceeds booked without subtracting the cost basis
sell_pnl_proceeds(p, price, qty) == RMul(price, qty)

\* pnl = (price - p.avg_entry) * qty
sell_pnl(p, price, qty) == RMul(RSub(price, p.avg_entry), qty)

\* the close that zeroes qty and leaves avg_entry
sell_pos_keeps_avg_entry(p, qty) ==
    LET left == RSub(p.qty, qty)
    IN  IF RLe(left, Zero)
        THEN [qty |-> Zero, avg_entry |-> p.avg_entry]
        ELSE [qty |-> left, avg_entry |-> p.avg_entry]

\* the partial sell that forgets the average entry price
sell_pos_drops_basis(p, qty) ==
    LET left == RSub(p.qty, qty)
    IN  [qty |-> IF RLe(left, Zero) THEN Zero ELSE left, avg_entry |-> Zero]

\* p.qty -= qty, then the reset when p.qty <= 0
sell_pos(p, qty) ==
    LET left == RSub(p.qty, qty)
    IN  IF RLe(left, Zero)
        THEN [qty |-> Zero, avg_entry |-> Zero]
        ELSE [qty |-> left, avg_entry |-> p.avg_entry]

(***************************************************************************)
(* Ledger.unrealized.                                                      *)
(***************************************************************************)
\* the difference taken the other way round
unrealized_value_entry_minus_price(p, price) ==
    IF RGt(p.qty, Zero) THEN RMul(RSub(p.avg_entry, price), p.qty) ELSE Zero

\* return (price - p.avg_entry) * p.qty if p.qty > 0 else 0.0
unrealized_value(p, price) ==
    IF RGt(p.qty, Zero) THEN RMul(RSub(price, p.avg_entry), p.qty) ELSE Zero

(***************************************************************************)
(* The calls, each a whole method body run without interruption.           *)
(***************************************************************************)
Prices == {FromInt(i) : i \in {0 - 1, 0, 1, MaxPrice}}
Notionals == {FromInt(i) : i \in {0 - MaxNotional, 0, MaxNotional}}

Call(op, sym, price, usdt_notional, ret) ==
    [op |-> op, sym |-> sym, price |-> price, notional |-> usdt_notional,
     ret |-> ret, pre |-> View, pre_pnl |-> realized_pnl]

NoFills == [spent |-> Zero, sold |-> FALSE]

\* the bookkeeping of `fills` for a call on sym that filled qty at price and
\* left the position p
FillsAfter(call, p) ==
    [fills EXCEPT ![call.sym] =
        IF p.qty = Zero THEN NoFills
        ELSE IF call.op = "buy"
             THEN [@ EXCEPT !.spent = RAdd(@, RMul(call.price, call.ret))]
        ELSE IF call.op = "sell" /\ RGt(call.ret, Zero)
             THEN [@ EXCEPT !.sold = TRUE]
        ELSE @]

\* buy_pos without `if p.qty > 0 else price`: the weighted average always
buy_pos_general(p, price, qty) ==
    LET new_qty == RAdd(p.qty, qty)
    IN  IF RLe(new_qty, Zero)
        THEN [qty |-> Zero, avg_entry |-> Zero]
        ELSE [qty |-> new_qty,
              avg_entry |-> RDiv(RAdd(RMul(p.avg_entry, p.qty), RMul(price, qty)),
                                 new_qty)]

\* the ledger `general` after the same call: ensure, then buy with
\* buy_pos_general, or sell, each on general's own position
GeneralAfter(call) ==
    LET p == Get(general.positions, call.sym)
        bought == buy_pos_general(p, call.price, buy_qty(call.price, call.notional))
        qty == sell_qty(p, call.price, call.notional)
        sold == IF sell_returns_early(qty) THEN p ELSE sell_pos(p, qty)
        after == IF call.op = "buy" THEN bought
                 ELSE IF call.op = "sell" THEN sold
                 ELSE p
    IN  [positions |->
            [s \in DOMAIN general.positions \cup {call.sym} |->
                IF s = call.sym THEN after ELSE general.positions[s]],
         realized_pnl |->
            IF call.op = "sell" /\ ~sell_returns_early(qty)
            THEN RAdd(general.realized_pnl, sell_pnl(p, call.price, qty))
            ELSE general.realized_pnl]

\* the calls of the concrete scenario, in order, on a fresh ledger
Scenario ==
    << [op |-> "buy", sym |-> "BTCUSDT", price |-> FromInt(100), notional |-> FromInt(1000)],
       [op |-> "buy", sym |-> "BTCUSDT", price |-> FromInt(200), notional |-> FromInt(2000)],
       [op |-> "sell", sym |-> "BTCUSDT", price |-> FromInt(150), notional |-> FromInt(1500)] >>

\* the call is the next one of Scenario, every call before it having been one
Follows(call) ==
    /\ scen = nops
    /\ nops < Len(Scenario)
    /\ [op |-> call.op, sym |-> call.sym, price |-> call.price,
        notional |-> call.notional] = Scenario[nops + 1]

Record(call, p) ==
    /\ last' = call
    /\ prev_buy' = IF last.op = "buy" /\ RGt(last.ret, Zero) THEN last ELSE NoCall
    /\ fills' = FillsAfter(call, p)
    /\ nops' = nops + 1
    /\ scen' = IF Follows(call) THEN scen + 1 ELSE 0
    /\ general' = GeneralAfter(call)
    /\ UNCHANGED uiVars

Buy(sym, price, usdt_notional) ==
    /\ nops < MaxOps
    /\ LET pos1 == ensure_positions(positions, objs, sym)
           ob1 == ensure_objs(positions, objs, sym)
           r == pos1[sym]
           qty == buy_qty(price, usdt_notional)
       IN  /\ positions' = pos1
           /\ objs' = [ob1 EXCEPT ![r] = buy_pos(ob1[r], price, qty)]
           /\ realized_pnl' = realized_pnl
           /\ Record(Call("buy", sym, price, usdt_notional, qty),
                     buy_pos(ob1[r], price, qty))

Sell(sym, price, usdt_notional) ==
    /\ nops < MaxOps
    /\ LET pos1 == ensure_positions(positions, objs, sym)
           ob1 == ensure_objs(positions, objs, sym)
           r == pos1[sym]
           qty == sell_qty(ob1[r], price, usdt_notional)
       IN  /\ positions' = pos1
           /\ IF sell_returns_early(qty)
              THEN /\ objs' = ob1
                   /\ realized_pnl' = realized_pnl
                   /\ Record(Call("sell", sym, price, usdt_notional, Zero), ob1[r])
              ELSE /\ objs' = [ob1 EXCEPT ![r] = sell_pos(ob1[r], qty)]
                   /\ realized_pnl' = RAdd(realized_pnl, sell_pnl(ob1[r], price, qty))
                   /\ Record(Call("sell", sym, price, usdt_notional, qty),
                             sell_pos(ob1[r], qty))

Unrealized(sym, price) ==
    /\ nops < MaxOps
    /\ LET pos1 == ensure_positions(positions, objs, sym)
           ob1 == ensure_objs(positions, objs, sym)
       IN  /\ positions' = pos1
           /\ objs' = ob1
           /\ realized_pnl' = realized_pnl
           /\ Record(Call("unrealized", sym, price, Zero,
                          unrealized_value(ob1[pos1[sym]], price)),
                     ob1[pos1[sym]])

\* Ledger.ensure called on its own
Ensure(sym) ==
    /\ nops < MaxOps
    /\ LET pos1 == ensure_positions(positions, objs, sym)
           ob1 == ensure_objs(positions, objs, sym)
       IN  /\ positions' = pos1
           /\ objs' = ob1
           /\ realized_pnl' = realized_pnl
           /\ Record(Call("ensure", sym, Zero, Zero, Zero), ob1[pos1[sym]])

(***************************************************************************)
(* run() of the UI bot: its locals and the values they start with.         *)
(***************************************************************************)
\* iterations of the main loop, signals submitted, largest signal strength
MaxTicks == 2
MaxSignals == 2
MaxStrength == 3
\* GET /api/state requests served
MaxRequests == 1

\* BASE_QTY (its default) and the floor of max(5.0, ...)
BASE_QTY == 10
MinNotional == 5

\* SYMBOLS in list order
SYMBOL_LIST == <<"BTCUSDT", "XRPUSDT">>

\* last_state = {}
NoState == <<>>
NoSignal == <<>>

\* Python's max(a, b): b when b > a, else a
RMax(a, b) == IF RGt(b, a) THEN b ELSE a

\* the notional without the floor of max(5.0, ...)
notional_of_unfloored(strength) ==
    RMul(FromInt(BASE_QTY), RMax(Rat(1, 10), RMin(FromInt(2), strength)))

\* notional = max(5.0, BASE_QTY * max(0.1, min(2.0, strength)))
notional_of(strength) ==
    RMax(FromInt(MinNotional),
         RMul(FromInt(BASE_QTY), RMax(Rat(1, 10), RMin(FromInt(2), strength))))

\* the "positions" and "realized_pnl" entries build_state reads, taken at once
Books ==
    [positions |-> [s \in SYMBOLS |-> Get(View, s)],
     realized_pnl |-> realized_pnl]

\* the same two entries of a state dict
BooksOf(state) ==
    [positions |-> state.positions, realized_pnl |-> state.realized_pnl]

\* Ledger(): realized_pnl = 0.0 and no positions; run()'s locals
Init ==
    /\ realized_pnl = Zero
    /\ positions = <<>>
    /\ objs = <<>>
    /\ last = NoCall
    /\ prev_buy = NoCall
    /\ fills = [s \in SYMBOLS |-> NoFills]
    /\ nops = 0
    /\ scen = 0
    /\ general = [positions |-> <<>>, realized_pnl |-> Zero]
    /\ prices = [s \in SYMBOLS |-> Zero]
    /\ signal_q = <<>>
    /\ last_state = NoState
    /\ ticks = 0
    /\ m_pc = "poll"
    /\ m_i = 1
    /\ m_sig = NoSignal
    /\ m_p = 0
    /\ m_new = Position
    /\ m_ret = Zero
    /\ s_pc = "idle"
    /\ s_i = 1
    /\ s_p = 0
    /\ s_arg = Zero
    /\ snap = NoState
    /\ nsig = 0
    /\ nreq = 0
    /\ submitted = <<>>
    /\ drained = <<>>
    /\ calls = <<>>
    /\ committed = {Books}
    /\ net = [s \in SYMBOLS |-> Zero]

Next ==
    \/ \E sym \in SYMBOLS, price \in Prices, n \in Notionals : Buy(sym, price, n)
    \/ \E sym \in SYMBOLS, price \in Prices, n \in Notionals : Sell(sym, price, n)
    \/ \E sym \in SYMBOLS, price \in Prices : Unrealized(sym, price)
    \/ \E sym \in SYMBOLS : Ensure(sym)

Spec == Init /\ [][Next]_vars

\* the same calls with the prices and notionals of the concrete scenario
ScenarioPrices == {Scenario[i].price : i \in 1..Len(Scenario)}
ScenarioNotionals == {Scenario[i].notional : i \in 1..Len(Scenario)}

NextScenario ==
    \/ \E price \in ScenarioPrices, n \in ScenarioNotionals : Buy("BTCUSDT", price, n)
    \/ \E price \in ScenarioPrices, n \in ScenarioNotionals : Sell("BTCUSDT", price, n)
    \/ \E price \in ScenarioPrices : Unrealized("BTCUSDT", price)

SpecScenario == Init /\ [][NextScenario]_vars

(***************************************************************************)
(* The UI bot: run()'s loop on the main thread, and the Flask thread       *)
(* serving POST /api/signal, POST /alert and GET /api/state.  No lock is   *)
(* taken anywhere, so the threads interleave between any two loads and     *)
(* stores of shared objects; each action below is one such load or store   *)
(* (with the thread-local computation around it).                          *)
(***************************************************************************)
UIPrices == {FromInt(1), FromInt(MaxPrice)}
Sides == {"buy", "sell"}
Strengths == {FromInt(0), FromInt(MaxStrength)}

Sym(i) == SYMBOL_LIST[i]
NSym == Len(SYMBOL_LIST)

\* the ledger and the history of Spec's calls that a step leaves alone
KeepCalls == UNCHANGED <<last, prev_buy, fills, nops, scen, general>>
KeepLedger == UNCHANGED <<realized_pnl, positions, objs>>
KeepShared == UNCHANGED <<prices, signal_q, last_state, ticks, nsig>>
KeepRequests == UNCHANGED nreq
KeepBooks == UNCHANGED <<committed, net>>
KeepLog == UNCHANGED <<submitted, drained, calls>>

\* a queue that hands out the newest item first
queue_get_newest(q) == [item |-> q[Len(q)], rest |-> SubSeq(q, 1, Len(q) - 1)]

\* the skip taken only when px < 0
no_price_negative_only(px) == RLt(px, Zero)

\* signal_q.get_nowait(): the oldest item, and the queue without it
queue_get(q) == [item |-> Head(q), rest |-> Tail(q)]

\* if px <= 0: ... continue
no_price(px) == RLe(px, Zero)

\* api_signal / alert -> submit_signal: a validated signal is queued (while
\* the loop still has an iteration to run: later ones would never be drained)
SubmitSignal(sym, side, strength) ==
    /\ nsig < MaxSignals
    /\ ticks < MaxTicks
    /\ signal_q' = Append(signal_q, [symbol |-> sym, side |-> side, strength |-> strength])
    /\ nsig' = nsig + 1
    /\ submitted' = Append(submitted, [symbol |-> sym, side |-> side, strength |-> strength])
    /\ UNCHANGED <<drained, calls>>
    /\ KeepCalls /\ KeepLedger /\ KeepBooks
    /\ UNCHANGED <<prices, last_state, ticks, nreq>>
    /\ UNCHANGED mainVars /\ UNCHANGED serverVars

\* 1) prices[s] = get_price(s), or the exception that leaves prices[s] as it was
\* (paused stays False: api_pause's `nonlocal paused` binds nothing)
FetchPrice(px) ==
    /\ m_pc = "poll"
    /\ ticks < MaxTicks
    /\ prices' = [prices EXCEPT ![Sym(m_i)] = px]
    /\ m_i' = IF m_i = NSym THEN 1 ELSE m_i + 1
    /\ m_pc' = IF m_i = NSym THEN "drain" ELSE "poll"
    /\ KeepCalls /\ KeepLog /\ KeepLedger /\ KeepBooks
    /\ UNCHANGED <<signal_q, last_state, ticks, nsig, m_sig, m_p, m_new, m_ret>>
    /\ UNCHANGED serverVars /\ KeepRequests

FetchFails == FetchPrice(prices[Sym(m_i)])

\* 2) sig = signal_q.get_nowait(); px = prices.get(s, 0.0); skip when px <= 0
TakeSignal ==
    /\ m_pc = "drain"
    /\ signal_q # <<>>
    /\ LET sig == queue_get(signal_q).item
           px == prices[sig.symbol]
           notional == notional_of(sig.strength)
       IN  /\ signal_q' = queue_get(signal_q).rest
           /\ drained' = Append(drained, [sig |-> sig, px |-> px])
           /\ IF no_price(px)
              THEN /\ m_pc' = "drain"
                   /\ m_sig' = m_sig
                   /\ calls' = calls
              ELSE /\ m_pc' = "ensure"
                   /\ m_sig' = [symbol |-> sig.symbol, side |-> sig.side,
                                px |-> px, notional |-> notional]
                   /\ calls' = Append(calls, [sig |-> sig, op |-> sig.side,
                                              sym |-> sig.symbol, price |-> px,
                                              notional |-> notional])
    /\ submitted' = submitted
    /\ KeepCalls /\ KeepLedger /\ KeepBooks
    /\ UNCHANGED <<prices, last_state, ticks, nsig, m_i, m_p, m_new, m_ret>>
    /\ UNCHANGED serverVars /\ KeepRequests

\* ensure: if sym not in self.positions
MainEnsure ==
    /\ m_pc = "ensure"
    /\ m_pc' = IF m_sig.symbol \notin DOMAIN positions THEN "insert" ELSE "load"
    /\ KeepCalls /\ KeepLog /\ KeepLedger /\ KeepBooks /\ KeepShared
    /\ UNCHANGED <<m_i, m_sig, m_p, m_new, m_ret>>
    /\ UNCHANGED serverVars /\ KeepRequests

\* the store self.positions[sym] = Position(), whatever the mapping holds by now
StoreFresh(sym) ==
    /\ objs' = Append(objs, Position)
    /\ positions' = [s \in DOMAIN positions \cup {sym} |->
                        IF s = sym THEN Len(objs) + 1 ELSE positions[s]]

\* ensure: self.positions[sym] = Position()
MainInsert ==
    /\ m_pc = "insert"
    /\ StoreFresh(m_sig.symbol)
    /\ m_pc' = "load"
    /\ realized_pnl' = realized_pnl
    /\ KeepCalls /\ KeepLog /\ KeepBooks /\ KeepShared
    /\ UNCHANGED <<m_i, m_sig, m_p, m_new, m_ret>>
    /\ UNCHANGED serverVars /\ KeepRequests

\* p = self.positions[sym]
MainLoad ==
    /\ m_pc = "load"
    /\ m_p' = positions[m_sig.symbol]
    /\ m_pc' = m_sig.side
    /\ KeepCalls /\ KeepLog /\ KeepLedger /\ KeepBooks /\ KeepShared
    /\ UNCHANGED <<m_i, m_sig, m_new, m_ret>>
    /\ UNCHANGED serverVars /\ KeepRequests

\* buy: qty and new_qty computed, then the first store: p.qty = 0.0 of the reset,
\* or p.avg_entry = ... of the else branch
BuyFirstStore ==
    /\ m_pc = "buy"
    /\ LET p == objs[m_p]
           qty == buy_qty(m_sig.px, m_sig.notional)
           np == buy_pos(p, m_sig.px, qty)
       IN  /\ m_ret' = qty
           /\ m_new' = np
           /\ objs' = [objs EXCEPT ![m_p] =
                          IF RLe(RAdd(p.qty, qty), Zero)
                          THEN [p EXCEPT !.qty = np.qty]
                          ELSE [p EXCEPT !.avg_entry = np.avg_entry]]
    /\ m_pc' = "buy2"
    /\ UNCHANGED <<realized_pnl, positions>>
    /\ KeepCalls /\ KeepLog /\ KeepBooks /\ KeepShared
    /\ UNCHANGED <<m_i, m_sig, m_p>>
    /\ UNCHANGED serverVars /\ KeepRequests

\* buy: the second store: p.avg_entry = 0.0 of the reset, or p.qty = new_qty
BuySecondStore ==
    /\ m_pc = "buy2"
    /\ objs' = [objs EXCEPT ![m_p] = m_new]
    /\ m_pc' = "return"
    /\ UNCHANGED <<realized_pnl, positions>>
    /\ KeepCalls /\ KeepLog /\ KeepBooks /\ KeepShared
    /\ UNCHANGED <<m_i, m_sig, m_p, m_new, m_ret>>
    /\ UNCHANGED serverVars /\ KeepRequests

\* sell: qty = min(...); the early return, or self.realized_pnl += pnl
SellBooksPnl ==
    /\ m_pc = "sell"
    /\ LET p == objs[m_p]
           qty == sell_qty(p, m_sig.px, m_sig.notional)
       IN  IF sell_returns_early(qty)
           THEN /\ m_ret' = Zero
                /\ m_pc' = "return"
                /\ realized_pnl' = realized_pnl
           ELSE /\ m_ret' = qty
                /\ m_pc' = "sell2"
                /\ realized_pnl' = RAdd(realized_pnl, sell_pnl(p, m_sig.px, qty))
    /\ UNCHANGED <<positions, objs>>
    /\ KeepCalls /\ KeepLog /\ KeepBooks /\ KeepShared
    /\ UNCHANGED <<m_i, m_sig, m_p, m_new>>
    /\ UNCHANGED serverVars /\ KeepRequests

\* sell: p.qty -= qty
SellStoreQty ==
    /\ m_pc = "sell2"
    /\ LET left == RSub(objs[m_p].qty, m_ret)
       IN  /\ objs' = [objs EXCEPT ![m_p].qty = left]
           /\ m_pc' = IF RLe(left, Zero) THEN "sell3" ELSE "return"
    /\ UNCHANGED <<realized_pnl, positions>>
    /\ KeepCalls /\ KeepLog /\ KeepBooks /\ KeepShared
    /\ UNCHANGED <<m_i, m_sig, m_p, m_new, m_ret>>
    /\ UNCHANGED serverVars /\ KeepRequests

\* sell: p.qty, p.avg_entry = 0.0, 0.0 (qty is 0 already; the store that shows
\* is the one to avg_entry)
SellReset ==
    /\ m_pc = "sell3"
    /\ objs' = [objs EXCEPT ![m_p] = sell_pos(objs[m_p], Zero)]
    /\ m_pc' = "return"
    /\ UNCHANGED <<realized_pnl, positions>>
    /\ KeepCalls /\ KeepLog /\ KeepBooks /\ KeepShared
    /\ UNCHANGED <<m_i, m_sig, m_p, m_new, m_ret>>
    /\ UNCHANGED serverVars /\ KeepRequests

\* buy/sell has returned qty to run(), which logs the trade
Return ==
    /\ m_pc = "return"
    /\ net' = [net EXCEPT ![m_sig.symbol] =
                  IF m_sig.side = "buy" THEN RAdd(@, m_ret) ELSE RSub(@, m_ret)]
    /\ committed' = committed \cup {Books}
    /\ m_pc' = "drain"
    /\ m_sig' = NoSignal /\ m_p' = 0 /\ m_new' = Position /\ m_ret' = Zero
    /\ KeepCalls /\ KeepLog /\ KeepLedger /\ KeepShared
    /\ UNCHANGED m_i
    /\ UNCHANGED serverVars /\ KeepRequests

\* the state dict build_state returns when nothing interleaves with it
StateNow ==
    [positions |-> [s \in SYMBOLS |-> Get(View, s)],
     realized_pnl |-> realized_pnl,
     unrealized |-> [s \in SYMBOLS |-> unrealized_value(Get(View, s), prices[s])]]

RECURSIVE EnsureAllPositions(_, _, _)
EnsureAllPositions(pos, ob, i) ==
    IF i > NSym THEN pos
    ELSE EnsureAllPositions(ensure_positions(pos, ob, Sym(i)),
                            ensure_objs(pos, ob, Sym(i)), i + 1)

RECURSIVE EnsureAllObjs(_, _, _)
EnsureAllObjs(pos, ob, i) ==
    IF i > NSym THEN ob
    ELSE EnsureAllObjs(ensure_positions(pos, ob, Sym(i)),
                       ensure_objs(pos, ob, Sym(i)), i + 1)

\* the queue is empty: 3) last_state = write_state_file(prices, ledger),
\* 4) the status line (both call ledger.unrealized for every symbol), sleep.
\* now - last_write > 1.5 holds on every iteration (last_write starts at 0 and
\* POLL_SEC, 2 by default, is slept in between).
WriteState ==
    /\ m_pc = "drain"
    /\ signal_q = <<>>
    /\ last_state' = StateNow
    /\ positions' = EnsureAllPositions(positions, objs, 1)
    /\ objs' = EnsureAllObjs(positions, objs, 1)
    /\ realized_pnl' = realized_pnl
    /\ ticks' = ticks + 1
    /\ m_pc' = "poll"
    /\ KeepCalls /\ KeepLog /\ KeepBooks
    /\ UNCHANGED <<prices, signal_q, nsig, m_i, m_sig, m_p, m_new, m_ret>>
    /\ UNCHANGED serverVars /\ KeepRequests

ServerStep(pc, i) ==
    /\ s_pc' = pc
    /\ s_i' = i
    /\ KeepCalls /\ KeepLog /\ KeepBooks /\ KeepShared
    /\ UNCHANGED mainVars
    /\ nreq' = IF s_pc \in {"idle", "done"} THEN nreq + 1 ELSE nreq

\* GET /api/state: state_ref() = last_state or build_state(prices, ledger)
ApiState ==
    /\ s_pc \in {"idle", "done"}
    /\ nreq < MaxRequests
    /\ IF last_state # NoState
       THEN /\ snap' = last_state
            /\ ServerStep("done", 1)
       ELSE /\ snap' = [positions |-> [s \in SYMBOLS |-> Position],
                        realized_pnl |-> Zero,
                        unrealized |-> [s \in SYMBOLS |-> Zero]]
            /\ ServerStep("pos_qty", 1)
    /\ KeepLedger
    /\ UNCHANGED <<s_p, s_arg>>

\* build_state: "qty": ledger.positions.get(s, Position()).qty
ReadPosQty ==
    /\ s_pc = "pos_qty"
    /\ snap' = [snap EXCEPT !.positions[Sym(s_i)].qty = Get(View, Sym(s_i)).qty]
    /\ ServerStep("pos_avg", s_i)
    /\ KeepLedger
    /\ UNCHANGED <<s_p, s_arg>>

\* build_state: "avg_entry": ledger.positions.get(s, Position()).avg_entry
ReadPosAvg ==
    /\ s_pc = "pos_avg"
    /\ snap' = [snap EXCEPT !.positions[Sym(s_i)].avg_entry =
                                Get(View, Sym(s_i)).avg_entry]
    /\ IF s_i = NSym THEN ServerStep("pnl", 1) ELSE ServerStep("pos_qty", s_i + 1)
    /\ KeepLedger
    /\ UNCHANGED <<s_p, s_arg>>

\* build_state: "realized_pnl": ledger.realized_pnl
ReadPnl ==
    /\ s_pc = "pnl"
    /\ snap' = [snap EXCEPT !.realized_pnl = realized_pnl]
    /\ ServerStep("u_ensure", 1)
    /\ KeepLedger
    /\ UNCHANGED <<s_p, s_arg>>

\* build_state: ledger.unrealized(s, prices.get(s, 0.0)); ensure's test
ServerEnsure ==
    /\ s_pc = "u_ensure"
    /\ s_arg' = prices[Sym(s_i)]
    /\ IF Sym(s_i) \notin DOMAIN positions
       THEN ServerStep("u_insert", s_i)
       ELSE ServerStep("u_load", s_i)
    /\ KeepLedger
    /\ UNCHANGED <<s_p, snap>>

\* ensure: self.positions[sym] = Position()
ServerInsert ==
    /\ s_pc = "u_insert"
    /\ StoreFresh(Sym(s_i))
    /\ realized_pnl' = realized_pnl
    /\ ServerStep("u_load", s_i)
    /\ UNCHANGED <<s_p, s_arg, snap>>

\* unrealized: p = self.positions[sym]
ServerLoad ==
    /\ s_pc = "u_load"
    /\ s_p' = positions[Sym(s_i)]
    /\ ServerStep("u_cond", s_i)
    /\ KeepLedger
    /\ UNCHANGED <<s_arg, snap>>

\* the next symbol of the "unrealized" comprehension, or the response
ServerNext == IF s_i = NSym THEN ServerStep("done", 1) ELSE ServerStep("u_ensure", s_i + 1)

\* unrealized: ... if p.qty > 0 else 0.0
ServerCond ==
    /\ s_pc = "u_cond"
    /\ IF RGt(objs[s_p].qty, Zero)
       THEN /\ ServerStep("u_avg", s_i)
            /\ snap' = snap
       ELSE /\ ServerNext
            /\ snap' = [snap EXCEPT !.unrealized[Sym(s_i)] = Zero]
    /\ s_p' = IF RGt(objs[s_p].qty, Zero) THEN s_p ELSE 0
    /\ s_arg' = IF RGt(objs[s_p].qty, Zero) THEN s_arg ELSE Zero
    /\ KeepLedger

\* unrealized: (price - p.avg_entry)
ServerReadAvg ==
    /\ s_pc = "u_avg"
    /\ s_arg' = RSub(s_arg, objs[s_p].avg_entry)
    /\ ServerStep("u_qty", s_i)
    /\ KeepLedger
    /\ UNCHANGED <<s_p, snap>>

\* unrealized: ... * p.qty
ServerReadQty ==
    /\ s_pc = "u_qty"
    /\ snap' = [snap EXCEPT !.unrealized[Sym(s_i)] = RMul(s_arg, objs[s_p].qty)]
    /\ ServerNext
    /\ s_p' = 0
    /\ s_arg' = Zero
    /\ KeepLedger

MainNext ==
    \/ \E px \in UIPrices : FetchPrice(px)
    \/ FetchFails
    \/ TakeSignal
    \/ MainEnsure
    \/ MainInsert
    \/ MainLoad
    \/ BuyFirstStore
    \/ BuySecondStore
    \/ SellBooksPnl
    \/ SellStoreQty
    \/ SellReset
    \/ Return
    \/ WriteState

ServerNextStep ==
    \/ \E sym \in SYMBOLS, side \in Sides, strength \in Strengths :
          SubmitSignal(sym, side, strength)
    \/ ApiState
    \/ ReadPosQty
    \/ ReadPosAvg
    \/ ReadPnl
    \/ ServerEnsure
    \/ ServerInsert
    \/ ServerLoad
    \/ ServerCond
    \/ ServerReadAvg
    \/ ServerReadQty

NextUI == MainNext \/ ServerNextStep

SpecUI == Init /\ [][NextUI]_vars

\* run() alone: signals arrive, nobody asks for /api/state
NextMainOnly ==
    \/ MainNext
    \/ \E sym \in SYMBOLS, side \in Sides, strength \in Strengths :
          SubmitSignal(sym, side, strength)

SpecMainOnly == Init /\ [][NextMainOnly]_vars

(***************************************************************************)
(* Properties of the Ledger calls (checked under Spec; the scenario of C11 *)
(* under SpecScenario).                                                    *)
(***************************************************************************)
\* the call's symbol's position before the call (absent reads as (0, 0))
PreOf(call) == Get(call.pre, call.sym)
\* ... and now
NowOf(call) == Get(View, call.sym)
IsPos(x) == RGt(x, Zero)

\* C1: after any sequence of buy, sell and unrealized calls, with prices and
\* notionals of any sign, every position's quantity is >= 0.
C1_QuantityNeverNegative ==
    \A i \in 1..Len(objs) : RLe(Zero, objs[i].qty)

\* a buy whose negative notional is larger than the holding has acted and
\* left the position flat
C1_Witness ==
    /\ last.op = "buy"
    /\ RLt(last.notional, Zero) /\ IsPos(last.price)
    /\ IsPos(PreOf(last).qty)
    /\ RLt(RAdd(PreOf(last).qty, last.ret), Zero)
    /\ NowOf(last).qty = Zero

\* C2: in every ledger state, for every symbol in the mapping, quantity == 0
\* implies averageEntryPrice == 0.
C2_FlatHasZeroAvgEntry ==
    \A s \in DOMAIN positions : View[s].qty = Zero => View[s].avg_entry = Zero

\* a sell has fully closed a position that had a non-zero average entry price
C2_Witness ==
    /\ last.op = "sell"
    /\ IsPos(PreOf(last).qty)
    /\ PreOf(last).avg_entry # Zero
    /\ last.ret = PreOf(last).qty
    /\ NowOf(last) = Position

\* C3 (as claimed): every position's averageEntryPrice is >= 0 in every state
\* reachable by buy/sell calls, the notional being of any sign.
C3_AvgEntryNeverNegative ==
    \A s \in DOMAIN positions : RLe(Zero, View[s].avg_entry)

\* C6: a sell returns min(held, notional / price) when that minimum is positive
\* and price > 0, never more than was held before the call, and a sell whose
\* notional implies more than the holdings fills exactly the holdings and
\* leaves quantity 0.
C6_SellFillIsClamped ==
    last.op = "sell" =>
        LET held == PreOf(last).qty
        IN  /\ RLe(last.ret, held)
            /\ IsPos(last.price) =>
                 LET desired == RDiv(last.notional, last.price)
                     least == IF RLe(held, desired) THEN held ELSE desired
                 IN  /\ IsPos(least) => last.ret = least
                     /\ RGt(desired, held) =>
                          /\ last.ret = held
                          /\ NowOf(last).qty = Zero

\* a sell asked for more than the (positive) holding
C6_Witness ==
    /\ last.op = "sell"
    /\ IsPos(last.price)
    /\ IsPos(PreOf(last).qty)
    /\ RGt(RDiv(last.notional, last.price), PreOf(last).qty)
    /\ last.ret = PreOf(last).qty

\* C7 (as claimed): a buy with price <= 0 returns 0 and changes nothing:
\* realizedPnL, the set of symbols in the mapping and every position are as
\* before the call.
C7_BuyAtNonPositivePriceChangesNothing ==
    (last.op = "buy" /\ RLe(last.price, Zero)) =>
        /\ last.ret = Zero
        /\ realized_pnl = last.pre_pnl
        /\ DOMAIN positions = DOMAIN last.pre
        /\ View = last.pre

\* C7 (amended): a buy with price <= 0 returns 0, leaves realizedPnL and every
\* position that existed unchanged, and its only effect on the mapping is the
\* (0, 0) entry that ensure inserts for a symbol that was absent.
C7_BuyAtNonPositivePriceOnlyEnsures ==
    (last.op = "buy" /\ RLe(last.price, Zero)) =>
        /\ last.ret = Zero
        /\ realized_pnl = last.pre_pnl
        /\ DOMAIN positions = DOMAIN last.pre \cup {last.sym}
        /\ \A s \in DOMAIN positions : View[s] = Get(last.pre, s)

\* a buy at a negative price with a non-zero notional on a held position
C7_Witness ==
    /\ last.op = "buy"
    /\ RLt(last.price, Zero)
    /\ last.notional # Zero
    /\ IsPos(PreOf(last).qty)
    /\ realized_pnl # Zero

\* C8: a sell whose fill is not positive (nothing held, or price <= 0, or
\* notional <= 0) returns 0 and leaves realizedPnL and every position's
\* quantity and averageEntryPrice unchanged.
C8_ZeroFillSellChangesNothing ==
    (/\ last.op = "sell"
     /\ \/ PreOf(last).qty = Zero
        \/ RLe(last.price, Zero)
        \/ RLe(last.notional, Zero)) =>
        /\ last.ret = Zero
        /\ realized_pnl = last.pre_pnl
        /\ \A s \in DOMAIN positions : View[s] = Get(last.pre, s)

\* a sell with a negative notional at a positive price on a held position
C8_Witness ==
    /\ last.op = "sell"
    /\ IsPos(PreOf(last).qty)
    /\ IsPos(last.price)
    /\ RLt(last.notional, Zero)
    /\ last.ret = Zero

\* a buy with price > 0 and notional > 0 followed at once by a sell of the same
\* quantity at the same price
RoundTrip ==
    /\ last.op = "sell"
    /\ prev_buy.op = "buy"
    /\ last.sym = prev_buy.sym
    /\ last.price = prev_buy.price
    /\ last.notional = prev_buy.notional
    /\ IsPos(prev_buy.price)
    /\ IsPos(prev_buy.notional)
    /\ last.ret = prev_buy.ret

\* C9 (as claimed): such a round trip leaves realizedPnL at its value before
\* the buy and the position at (0, 0).
C9_RoundTripRestoresLedger ==
    RoundTrip =>
        /\ realized_pnl = prev_buy.pre_pnl
        /\ NowOf(last) = Position

\* C9 (amended): the same, for a position that was flat before the buy.
C9_RoundTripFromFlatRestoresLedger ==
    (RoundTrip /\ PreOf(prev_buy).qty = Zero) =>
        /\ realized_pnl = prev_buy.pre_pnl
        /\ NowOf(last) = Position

\* a round trip from a flat position on a ledger whose realizedPnL is not 0
C9_Witness ==
    /\ RoundTrip
    /\ PreOf(prev_buy).qty = Zero
    /\ prev_buy.pre_pnl # Zero

\* two buys in a row on one symbol, both with price > 0 and notional > 0
TwoBuys ==
    /\ last.op = "buy"
    /\ prev_buy.op = "buy"
    /\ last.sym = prev_buy.sym
    /\ IsPos(last.price) /\ IsPos(last.notional)
    /\ IsPos(prev_buy.price) /\ IsPos(prev_buy.notional)

\* the position the two buys give when applied in the other order
OtherOrder ==
    buy_pos(buy_pos(PreOf(prev_buy), last.price, last.ret),
            prev_buy.price, prev_buy.ret)

\* C10 (as claimed): the two buys give the same position in either order, and
\* the averageEntryPrice is the notional spent since the position was last
\* flat divided by the quantity held.
C10_TwoBuysWeightedMean ==
    TwoBuys =>
        /\ NowOf(last) = OtherOrder
        /\ NowOf(last).avg_entry =
               RDiv(fills[last.sym].spent, NowOf(last).qty)

\* C10 (amended): the two buys give the same position in either order; the
\* cost basis avg * qty grows by exactly the two notionals; and when no sell
\* has filled since the position was last flat the averageEntryPrice is the
\* notional spent divided by the quantity held.
C10_TwoBuysCommuteAndAddCost ==
    TwoBuys =>
        /\ NowOf(last) = OtherOrder
        /\ NowOf(last).qty =
               RAdd(PreOf(prev_buy).qty, RAdd(prev_buy.ret, last.ret))
        /\ RMul(NowOf(last).avg_entry, NowOf(last).qty) =
               RAdd(RMul(PreOf(prev_buy).avg_entry, PreOf(prev_buy).qty),
                    RAdd(prev_buy.notional, last.notional))
        /\ ~fills[last.sym].sold =>
               NowOf(last).avg_entry =
                   RDiv(fills[last.sym].spent, NowOf(last).qty)

\* two buys at different prices on a position that was already held
C10_Witness ==
    /\ TwoBuys
    /\ last.price # prev_buy.price
    /\ IsPos(PreOf(prev_buy).qty)
    /\ PreOf(prev_buy).avg_entry # last.price
    /\ PreOf(prev_buy).avg_entry # prev_buy.price
    /\ ~fills[last.sym].sold

\* C11: on a fresh ledger buy(BTCUSDT, 100, 1000); buy(BTCUSDT, 200, 2000);
\* sell(BTCUSDT, 150, 1500) returns fills 10, 10, 10, passes through positions
\* (10, 100) and (20, 150), ends at (10, 150) and leaves realizedPnL at 0.
C11_ScenarioFillsAndPositions ==
    /\ scen = 1 =>
          /\ last.ret = FromInt(10)
          /\ View = [s \in {"BTCUSDT"} |-> [qty |-> FromInt(10), avg_entry |-> FromInt(100)]]
          /\ realized_pnl = Zero
    /\ scen = 2 =>
          /\ last.ret = FromInt(10)
          /\ View = [s \in {"BTCUSDT"} |-> [qty |-> FromInt(20), avg_entry |-> FromInt(150)]]
          /\ realized_pnl = Zero
    /\ scen = 3 =>
          /\ last.ret = FromInt(10)
          /\ View = [s \in {"BTCUSDT"} |-> [qty |-> FromInt(10), avg_entry |-> FromInt(150)]]
          /\ realized_pnl = Zero

\* the three calls of the scenario have been made, in order, on a fresh ledger
C11_Witness ==
    /\ scen = Len(Scenario)
    /\ nops = Len(Scenario)
    /\ last.op = "sell" /\ last.price = FromInt(150) /\ last.notional = FromInt(1500)
    /\ prev_buy.op = "buy" /\ prev_buy.price = FromInt(200)

\* C12: realizedPnL starts at 0 and is changed only by a sell with a positive
\* fill, which adds its profit to the value it had; every buy, ensure and
\* unrealized call and every zero-fill sell leaves it unchanged, and nothing
\* resets it.
C12_RealizedPnlMovesOnlyOnFillingSell ==
    /\ nops = 0 => realized_pnl = Zero
    /\ last.op \in {"buy", "ensure", "unrealized"} => realized_pnl = last.pre_pnl
    /\ last.op = "sell" =>
          IF IsPos(last.ret)
          THEN realized_pnl =
                   RAdd(last.pre_pnl,
                        RMul(RSub(last.price, PreOf(last).avg_entry), last.ret))
          ELSE /\ last.ret = Zero
               /\ realized_pnl = last.pre_pnl

\* a filling sell has moved a realizedPnL that was not 0 to another value that
\* is not 0
C12_Witness ==
    /\ last.op = "sell"
    /\ IsPos(last.ret)
    /\ last.pre_pnl # Zero
    /\ realized_pnl # last.pre_pnl
    /\ realized_pnl # Zero

\* C13: unrealized(symbol, price) returns (price - averageEntryPrice) *
\* quantity when quantity > 0 and 0 otherwise, 0 for a symbol never referenced
\* at any price, and never changes realizedPnL or the quantity or
\* averageEntryPrice of an existing position: its only possible effect is the
\* (0, 0) entry inserted for an absent symbol.
C13_UnrealizedIsQuery ==
    last.op = "unrealized" =>
        /\ last.ret = IF IsPos(PreOf(last).qty)
                      THEN RMul(RSub(last.price, PreOf(last).avg_entry),
                                PreOf(last).qty)
                      ELSE Zero
        /\ last.sym \notin DOMAIN last.pre =>
              /\ last.ret = Zero
              /\ NowOf(last) = Position
        /\ realized_pnl = last.pre_pnl
        /\ DOMAIN positions = DOMAIN last.pre \cup {last.sym}
        /\ \A s \in DOMAIN last.pre : View[s] = last.pre[s]

\* unrealized has been read on a held position, below its average entry price,
\* with realizedPnL not 0
C13_Witness ==
    /\ last.op = "unrealized"
    /\ IsPos(PreOf(last).qty)
    /\ RLt(last.price, PreOf(last).avg_entry)
    /\ RLt(last.ret, Zero)
    /\ last.pre_pnl # Zero

\* the latest call raised ZeroDivisionError
RaisedZeroDivision ==
    \/ /\ last.op = "buy"
       /\ Zero \in buy_divisors(PreOf(last), last.price, last.notional)
    \/ /\ last.op = "sell"
       /\ Zero \in sell_divisors(PreOf(last), last.price, last.notional)

\* a sell whose notional implies more than the holding
OverSell ==
    /\ last.op = "sell"
    /\ IsPos(last.price)
    /\ RGt(RDiv(last.notional, last.price), PreOf(last).qty)

\* C14 (as claimed): no Ledger operation reaches an error state for any price
\* and notional: nothing divides by zero, and a non-positive price, a
\* non-positive notional and over-selling each end in a zero fill and/or a
\* position reset to (0, 0).
C14_DegenerateInputsFillZeroOrReset ==
    /\ ~RaisedZeroDivision
    /\ (/\ last.op \in {"buy", "sell"}
        /\ \/ RLe(last.price, Zero)
           \/ RLe(last.notional, Zero)
           \/ OverSell) =>
          \/ last.ret = Zero
          \/ NowOf(last) = Position

\* C14 (amended): nothing divides by zero; a buy or sell at a non-positive
\* price and a sell with a non-positive notional fill 0 and leave every
\* position as it was; an over-sell fills the holding and leaves (0, 0); a buy
\* with a non-positive notional at a positive price returns notional / price
\* (zero or negative) and resets the position to (0, 0) when the holding plus
\* that fill is <= 0, and otherwise leaves the holding plus that fill.
C14_DegenerateInputsNeverRaise ==
    /\ ~RaisedZeroDivision
    /\ (last.op \in {"buy", "sell"} /\ RLe(last.price, Zero)) =>
          /\ last.ret = Zero
          /\ NowOf(last) = PreOf(last)
    /\ (last.op = "sell" /\ RLe(last.notional, Zero)) =>
          /\ last.ret = Zero
          /\ NowOf(last) = PreOf(last)
    /\ OverSell =>
          /\ last.ret = PreOf(last).qty
          /\ NowOf(last) = Position
    /\ (last.op = "buy" /\ IsPos(last.price) /\ RLe(last.notional, Zero)) =>
          /\ last.ret = RDiv(last.notional, last.price)
          /\ IF RLe(RAdd(PreOf(last).qty, last.ret), Zero)
             THEN NowOf(last) = Position
             ELSE NowOf(last).qty = RAdd(PreOf(last).qty, last.ret)

\* a buy with a negative notional at a positive price on a holding larger than
\* the negative fill: the fill is not 0 and the position is not reset
C14_Witness ==
    /\ last.op = "buy"
    /\ IsPos(last.price)
    /\ RLt(last.notional, Zero)
    /\ RLt(last.ret, Zero)
    /\ IsPos(RAdd(PreOf(last).qty, last.ret))
    /\ IsPos(NowOf(last).qty)

FLAT(p) == p.qty = Zero
LONG(p) == RGt(p.qty, Zero)

\* what the claim lists for sell, unrealized and ensure, and for the other
\* symbols: a partial sell leaves LONG, a sell of the whole holding (exact or
\* clamped) takes LONG to FLAT, nothing else changes FLAT / LONG
SellAndQueryTransitions ==
    /\ \A s \in DOMAIN positions \ {last.sym} :
          /\ FLAT(View[s]) <=> FLAT(Get(last.pre, s))
          /\ LONG(View[s]) <=> LONG(Get(last.pre, s))
    /\ last.op \in {"unrealized", "ensure"} =>
          /\ FLAT(NowOf(last)) <=> FLAT(PreOf(last))
          /\ LONG(NowOf(last)) <=> LONG(PreOf(last))
    /\ last.op = "sell" =>
          /\ FLAT(PreOf(last)) => FLAT(NowOf(last))
          /\ (LONG(PreOf(last)) /\ ~IsPos(last.ret)) => LONG(NowOf(last))
          /\ (LONG(PreOf(last)) /\ IsPos(last.ret)) =>
                /\ RLe(last.ret, PreOf(last).qty)
                /\ RLt(last.ret, PreOf(last).qty) => LONG(NowOf(last))
                /\ last.ret = PreOf(last).qty => FLAT(NowOf(last))

\* C15 (as claimed): a position moves between FLAT and LONG only by the listed
\* transitions: a buy on FLAT with a (positive) fill leaves it LONG, a buy on
\* LONG leaves it LONG, a partial sell leaves LONG, a sell of the whole holding
\* takes LONG to FLAT, and no other operation changes FLAT / LONG.
C15_ListedTransitionsOnly ==
    last.op # "none" =>
        /\ FLAT(NowOf(last)) \/ LONG(NowOf(last))
        /\ SellAndQueryTransitions
        /\ last.op = "buy" =>
              /\ (FLAT(PreOf(last)) /\ IsPos(last.ret)) => LONG(NowOf(last))
              /\ (FLAT(PreOf(last)) /\ ~IsPos(last.ret)) => FLAT(NowOf(last))
              /\ LONG(PreOf(last)) => LONG(NowOf(last))

\* C15 (amended): the same, except that a buy leaves the position LONG exactly
\* when the holding plus its fill is > 0: a buy on LONG whose fill is negative
\* (negative notional) and at least as large as the holding takes LONG to FLAT.
C15_TransitionsWithNegativeBuy ==
    last.op # "none" =>
        /\ FLAT(NowOf(last)) \/ LONG(NowOf(last))
        /\ SellAndQueryTransitions
        /\ last.op = "buy" =>
              /\ (FLAT(PreOf(last)) /\ IsPos(last.ret)) => LONG(NowOf(last))
              /\ (FLAT(PreOf(last)) /\ ~IsPos(last.ret)) => FLAT(NowOf(last))
              /\ LONG(PreOf(last)) =>
                    IF IsPos(RAdd(PreOf(last).qty, last.ret))
                    THEN LONG(NowOf(last))
                    ELSE /\ RLt(last.ret, Zero)
                         /\ FLAT(NowOf(last))

\* a buy on a LONG position has left it FLAT
C15_Witness ==
    /\ last.op = "buy"
    /\ LONG(PreOf(last))
    /\ PreOf(last).avg_entry # Zero
    /\ RLe(RAdd(PreOf(last).qty, last.ret), Zero)
    /\ FLAT(NowOf(last))

\* C16: a sell with positive fill f at price p on a position (Q, a) adds
\* exactly (p - a) * f to realizedPnL and sets quantity to Q - f; when
\* Q - f > 0 the averageEntryPrice stays a, and when Q - f <= 0 the position
\* becomes (0, 0).
C16_SellBooksPnlKeepsBasis ==
    (last.op = "sell" /\ IsPos(last.ret)) =>
        LET Q == PreOf(last).qty
            a == PreOf(last).avg_entry
            f == last.ret
        IN  /\ realized_pnl = RAdd(last.pre_pnl, RMul(RSub(last.price, a), f))
            /\ IF IsPos(RSub(Q, f))
               THEN NowOf(last) = [qty |-> RSub(Q, f), avg_entry |-> a]
               ELSE NowOf(last) = Position
            /\ \A s \in DOMAIN positions \ {last.sym} : View[s] = Get(last.pre, s)

\* a partial sell at a price that is not the average entry price
C16_Witness ==
    /\ last.op = "sell"
    /\ IsPos(last.ret)
    /\ IsPos(RSub(PreOf(last).qty, last.ret))
    /\ last.price # PreOf(last).avg_entry
    /\ PreOf(last).avg_entry # Zero
    /\ NowOf(last).avg_entry = PreOf(last).avg_entry

\* C17: in every reachable state a buy with price > 0 that yields
\* newQuantity > 0 sets averageEntryPrice to (oldAvgEntry * oldQty + price *
\* filledQuantity) / newQuantity, and the from-flat special case gives what
\* that formula gives: the ledger with the special case and the one without
\* it are in identical states after every sequence of calls.
C17_SpecialCaseIsGeneralFormula ==
    /\ (/\ last.op = "buy"
        /\ IsPos(last.price)
        /\ IsPos(RAdd(PreOf(last).qty, last.ret))) =>
          NowOf(last) =
              [qty |-> RAdd(PreOf(last).qty, last.ret),
               avg_entry |->
                   RDiv(RAdd(RMul(PreOf(last).avg_entry, PreOf(last).qty),
                             RMul(last.price, last.ret)),
                        RAdd(PreOf(last).qty, last.ret))]
    /\ general.positions = View
    /\ general.realized_pnl = realized_pnl

\* a buy has reopened, at another price, a position that a sell had closed
C17_Witness ==
    /\ last.op = "buy"
    /\ last.sym \in DOMAIN last.pre
    /\ PreOf(last) = Position
    /\ IsPos(last.ret)
    /\ realized_pnl # Zero
    /\ NowOf(last).avg_entry = last.price
    /\ general.positions[last.sym].avg_entry = last.price

\* C19: trading at the mark price conserves equity: for any reachable state
\* and any price p > 0, realizedPnL + unrealized(symbol, p) is the same before
\* and after a buy(symbol, p, n) with n > 0, and before and after a
\* sell(symbol, p, n) with any n.
C19_TradeAtMarkConservesEquity ==
    (/\ last.op \in {"buy", "sell"}
     /\ IsPos(last.price)
     /\ last.op = "buy" => IsPos(last.notional)) =>
        RAdd(realized_pnl, unrealized_value(NowOf(last), last.price)) =
            RAdd(last.pre_pnl, unrealized_value(PreOf(last), last.price))

\* a buy at a price that is not the average entry price of the holding it adds
\* to, on a ledger that has realized a profit or loss
C19_Witness ==
    /\ last.op = "buy"
    /\ IsPos(last.price) /\ IsPos(last.notional)
    /\ IsPos(PreOf(last).qty)
    /\ unrealized_value(PreOf(last), last.price) # Zero
    /\ last.pre_pnl # Zero

(***************************************************************************)
(* Properties of the UI bot's threads (checked under SpecUI).              *)
(***************************************************************************)
\* C4 (as claimed): the state a GET /api/state returns holds a consistent view
\* of the ledger: its positions and realized_pnl are, together, those the
\* ledger had at some moment between two buy/sell calls (never a quantity
\* from after a call with an average entry price from before it, never a
\* realizedPnL from after a sell with a quantity from before it).
C4_SnapshotIsConsistent ==
    s_pc = "done" => BooksOf(snap) \in committed

\* C5 (as claimed): ensure's check-then-insert on the server thread never
\* interleaves with a buy/sell of the main thread, so no position that a buy
\* has updated is replaced by a fresh Position(): whenever the main thread is
\* between two calls, the quantity held for each symbol is the sum of the buy
\* fills minus the sum of the sell fills.
C5_HeldQuantityIsNetOfFills ==
    m_pc \in {"poll", "drain"} =>
        \A s \in SYMBOLS : Get(View, s).qty = net[s]

(***************************************************************************)
(* Properties of the polling loop (checked under SpecMainOnly).            *)
(***************************************************************************)
\* the signals of a sequence of drained entries
SignalsOf(d) == [i \in 1..Len(d) |-> d[i].sig]

\* the loop had a price for the signal's symbol when it drained it
HasPrice(d) == IsPos(d.px)

\* the call is the signal's side, on its symbol, at the price met
CallApplies(c, d) ==
    /\ c.sig = d.sig
    /\ c.op = d.sig.side
    /\ c.sym = d.sig.symbol
    /\ c.price = d.px

\* C18 (as claimed): the loop calls exactly one of Ledger.buy / Ledger.sell
\* for every signal it drains, in the order the signals were submitted and at
\* the symbol's current price; no drained signal is dropped without being
\* applied and none is applied twice.
C18_EveryDrainedSignalIsApplied ==
    /\ submitted = SignalsOf(drained) \o signal_q
    /\ Len(calls) = Len(drained)
    /\ \A i \in 1..Len(calls) : CallApplies(calls[i], drained[i])

\* C18 (amended): signals are drained in the order they were submitted; every
\* drained signal whose symbol's last fetched price is > 0 gets exactly one
\* call, of its side, on its symbol, at that price, the calls being in the
\* order of the signals; a drained signal whose symbol's last fetched price
\* is <= 0 is dropped without any call.
C18_DrainedSignalsWithPriceAreApplied ==
    /\ submitted = SignalsOf(drained) \o signal_q
    /\ LET priced == SelectSeq(drained, HasPrice)
       IN  /\ Len(calls) = Len(priced)
           /\ \A i \in 1..Len(calls) : CallApplies(calls[i], priced[i])
    /\ m_pc \notin {"poll", "drain"} =>
          /\ calls # <<>>
          /\ m_sig.symbol = calls[Len(calls)].sym
          /\ m_sig.side = calls[Len(calls)].op
          /\ m_sig.px = calls[Len(calls)].price
          /\ m_sig.px = prices[m_sig.symbol]
    /\ m_pc \in {"buy", "buy2"} => m_sig.side = "buy"
    /\ m_pc \in {"sell", "sell2", "sell3"} => m_sig.side = "sell"

\* in one pass the loop has dropped a signal whose symbol had no price and
\* applied a later, different one
C18_Witness ==
    /\ Len(drained) = 2
    /\ ~HasPrice(drained[1])
    /\ HasPrice(drained[2])
    /\ drained[1].sig # drained[2].sig
    /\ Len(calls) = 1
    /\ calls[1].sig = drained[2].sig
    /\ m_pc = "drain"

\* max(5, BASE_QTY * clamp(strength, 0.1, 2.0))
FlooredNotional(strength) ==
    LET clamped == IF RLt(strength, Rat(1, 10)) THEN Rat(1, 10)
                   ELSE IF RGt(strength, FromInt(2)) THEN FromInt(2)
                   ELSE strength
        scaled == RMul(FromInt(BASE_QTY), clamped)
    IN  IF RLt(scaled, FromInt(MinNotional)) THEN FromInt(MinNotional) ELSE scaled

\* strengths in steps of 1/10 from far below to far above the clamp's range
StrengthGrid ==
    {Rat(k, 10) : k \in (0 - 10 * MaxStrength)..(10 * MaxStrength)}

\* C20: every Ledger.buy / Ledger.sell call of the polling loop has price > 0
\* and notional = max(5, BASE_QTY * clamp(strength, 0.1, 2.0)) >= 5, whatever
\* the strength and whatever the price feed does (signals of a symbol whose
\* last known price is <= 0 are skipped); so every position with quantity > 0
\* has averageEntryPrice > 0.
C20_LoopCallsArePricedAndFloored ==
    \* the notional as a function of the strength alone, over the grid (the
    \* same in every state: evaluated before the first signal)
    /\ nsig = 0 =>
          \A strength \in StrengthGrid :
              /\ notional_of(strength) = FlooredNotional(strength)
              /\ RLe(FromInt(MinNotional), notional_of(strength))
    /\ \A i \in 1..Len(calls) :
          /\ IsPos(calls[i].price)
          /\ calls[i].notional = FlooredNotional(calls[i].sig.strength)
          /\ RLe(FromInt(MinNotional), calls[i].notional)
    /\ m_pc \notin {"poll", "drain"} =>
          /\ calls # <<>>
          /\ m_sig.px = calls[Len(calls)].price
          /\ m_sig.notional = calls[Len(calls)].notional
    /\ \A i \in 1..Len(objs) : IsPos(objs[i].qty) => IsPos(objs[i].avg_entry)

\* a symbol whose fetch has always failed had its signal skipped, and a buy
\* with a strength below the clamp has been applied at the floor notional
C20_Witness ==
    /\ \E i \in 1..Len(drained) : drained[i].px = Zero
    /\ \E i \in 1..Len(calls) :
          /\ RLt(calls[i].sig.strength, Rat(1, 10))
          /\ calls[i].op = "buy"
          /\ calls[i].notional = FromInt(MinNotional)
    /\ \E s \in DOMAIN positions : IsPos(View[s].qty)
    /\ m_pc = "drain"

=============================================================================
